---------------------------- MODULE Spec2Model ----------------------------
(***************************************************************************)
(* Model of assembly_uploader: AssemblyManifestGenerator                   *)
(* (assembly_uploader/assembly_manifest.py) and StudyXMLGenerator          *)
(* (assembly_uploader/study_xmls.py).                                      *)
(*                                                                         *)
(* Python str values are TLA+ strings; a list is a sequence; None is the   *)
(* empty sequence where a value may be absent.  The files of the upload    *)
(* directory are kept in two maps from path to content: `manifests' (a     *)
(* file is the sequence of chunks written to it) and `xmls' (a file is the *)
(* sequence of documents in it, <<>> being an empty file).                 *)
(***************************************************************************)
EXTENDS Integers, Sequences, FiniteSets, TLC

VARIABLES
    dirs,        \* directories that exist on disk
    manifests,   \* path -> sequence of written lines, for each manifest file
    xmls,        \* path -> sequence of XML documents, for each XML file
    gen,         \* the AssemblyManifestGenerator object (its attributes)
    rows_read,   \* rows that gen.metadata (a csv.DictReader) has yielded so far
    pc,          \* write_manifests: "running" | "failed" (raised) | "done"
    passes,      \* AssemblyManifestGenerator objects constructed so far
    calls,       \* direct generate_manifest calls made so far
    hashseed,    \* the str hash seed of the running interpreter
    reg,         \* the StudyXMLGenerator object: <<>> or <<attributes>>
    ena,         \* what the archive knows of the study: <<>> or <<record>>
    ena_calls,   \* EnaQuery.build_query calls made for the study
    today,       \* the ordinal of the current day
    ticks,       \* days passed since the start
    builds,      \* StudyXMLGenerator constructions attempted so far
    updates,     \* changes of the archive's study record so far
    last         \* the last operation: its arguments, outcome and return value

vars == <<dirs, manifests, xmls, gen, rows_read, pc, passes, calls, hashseed,
          reg, ena, ena_calls, today, ticks, builds, updates, last>>

manifestVars == <<manifests, gen, rows_read, pc, passes, calls, hashseed>>
xmlVars      == <<xmls, reg, ena, ena_calls, today, ticks, builds, updates>>

----------------------------------------------------------------------------
(* Bounds of the model *)

MaxRows   == 2     \* rows of the assemblies CSV read in one pass
MaxPasses == 2     \* manifest generators constructed over one upload directory
MaxCalls  == 1     \* direct calls of generate_manifest
MaxBuilds == 2     \* StudyXMLGenerator constructions over one upload directory
MaxTicks  == 1     \* midnights passed while the program runs
MaxUpdates == 1    \* changes of the archive's study record while it runs

----------------------------------------------------------------------------
(* Python str and list primitives *)

None == <<>>

\* str.endswith(suffix)
EndsWith(s, suf) ==
    /\ Len(s) >= Len(suf)
    /\ SubSeq(s, Len(s) - Len(suf) + 1, Len(s)) = suf

\* str.endswith(tuple of suffixes)
EndsWithAny(s, sufs) == \E i \in 1..Len(sufs) : EndsWith(s, sufs[i])

\* str.startswith(prefix)
StartsWith(s, pre) == Len(s) >= Len(pre) /\ SubSeq(s, 1, Len(pre)) = pre

\* index of the first occurrence of the character c in s, 0 if there is none
RECURSIVE FindFrom(_, _, _)
FindFrom(s, c, i) ==
    IF i > Len(s) THEN 0
    ELSE IF SubSeq(s, i, i) = c THEN i
    ELSE FindFrom(s, c, i + 1)

Find(s, c) == FindFrom(s, c, 1)

\* s.split(","): always at least one element, empty fields kept
RECURSIVE Split(_)
Split(s) ==
    LET i == Find(s, ",") IN
    IF i = 0 THEN <<s>>
    ELSE <<SubSeq(s, 1, i - 1)>> \o Split(SubSeq(s, i + 1, Len(s)))

\* ",".join(list)
RECURSIVE Join(_)
Join(l) ==
    IF Len(l) = 0 THEN ""
    ELSE IF Len(l) = 1 THEN l[1]
    ELSE l[1] \o "," \o Join(Tail(l))

\* the orders in which iterating a set can yield its elements
Orders(S) ==
    {l \in [1..Cardinality(S) -> S] : \A i, j \in DOMAIN l : i # j => l[i] # l[j]}

\* str(bool).lower()
BoolLower(b) == IF b THEN "true" ELSE "false"

\* bool(x) of an optional str: None and "" are false
Truthy(opt) == opt # None /\ opt[1] # ""

----------------------------------------------------------------------------
(* The environment of the manifest generator *)

\* the files under the working directory: path -> bytes
AssemblyFiles ==
    [p \in {"a.fa.gz", "b.fasta.gz", "c.fna.gz", "d.txt", "e.fa"} |->
        IF p = "c.fna.gz" THEN ">c1\nACGT\n" ELSE ""]

\* hashlib.md5(bytes).hexdigest() of the contents above
Md5Hex(bytes) ==
    IF bytes = "" THEN "d41d8cd98f00b204e9800998ecf8427e"
    ELSE "24f2394df35184acdce20b01eab57184"

\* str(Path(s)): "" is the current directory, a leading "./" is dropped
RECURSIVE PathOf(_)
PathOf(s) ==
    IF s = "" THEN "."
    ELSE IF StartsWith(s, "./") /\ Len(s) > 2 THEN PathOf(SubSeq(s, 3, Len(s)))
    ELSE s

\* Path.exists(): the files above and the current directory
PathExists(p) == p \in DOMAIN AssemblyFiles \/ p = "."

\* the run records of the archive; a run it does not hold cannot be resolved
EnaRuns ==
    [r \in {"ERR1", "ERR2", "ERR3"} |->
        [sample_accession |-> IF r = "ERR3" THEN "SAMEA2" ELSE "SAMEA1",
         instrument_model |-> IF r = "ERR2" THEN "Illumina MiSeq" ELSE "DNBSEQ-G400"]]

\* EnaQuery(run, private).build_query(): the record, or a raised exception
RunResolves(run, private) == run \in DOMAIN EnaRuns
BuildRunQuery(run, private) == EnaRuns[run]


----------------------------------------------------------------------------
(* AssemblyManifestGenerator *)

\* the CSV rows the program may be given (csv.DictReader rows; Sample is None
\* when the CSV has no such column)
Row(runs, filepath, sample, coverage) ==
    [Runs |-> runs, Coverage |-> coverage, Assembler |-> "megahit",
     Version |-> "1.2.9", Filepath |-> filepath, Sample |-> sample]

Rows ==
    { Row("ERR1", "a.fa.gz", None, "10"),
      Row("ERR1,ERR2", "./b.fasta.gz", <<"SAMEA9">>, "20"),
      Row("ERR2", "c.fna.gz", None, "30"),
      Row("ERR1,ERR3", "c.fna.gz", None, "40"),
      Row("ERR1,ERR3", "a.fa.gz", <<"">>, "50"),
      Row("ERR3,ERR1", "a.fa.gz", <<"SAMEA9">>, "60"),
      Row("ERR1", "d.txt", None, "70"),
      Row("ERR2", "missing.fa.gz", None, "80"),
      Row("ERR1,ERR9", "a.fa.gz", None, "90") }

\* self.upload_dir of both generators: (output_dir or Path(".")) / f"{study}_upload"
UploadDir(study) == study \o "_upload"

\* get_md5: the hex digest of the bytes of the file
get_md5(path) == Md5Hex(AssemblyFiles[path])

\* mutant: any .gz or .txt name passes the check
valid_extensions_lax == <<".gz", ".txt">>

valid_extensions == <<".fa.gz", ".fna.gz", ".fasta.gz">>

\* the arguments of one generate_manifest call
Args(runs, sample, sequencer, coverage, assembler, version, path) ==
    [runs |-> runs, sample |-> sample, sequencer |-> sequencer,
     coverage |-> coverage, assembler |-> assembler,
     assembler_version |-> version, assembly_path |-> path]

\* mutant: the "_others" marker is left out
assembly_alias_plain(g, runs, assembly_md5) == runs[1] \o "_" \o assembly_md5

\* assembly_alias; hash_part of test mode is computed and never used
assembly_alias(g, runs, assembly_md5) ==
    runs[1] \o (IF Len(runs) > 1 THEN "_others" ELSE "") \o "_" \o assembly_md5

manifest_path(g, assembly_md5) == g.upload_dir \o "/" \o assembly_md5 \o ".manifest"

\* mutant: ASSEMBLY_TYPE is written after COVERAGE
values_swapped(g, a) ==
    << <<"STUDY", g.new_project>>,
       <<"SAMPLE", a.sample>>,
       <<"RUN_REF", Join(a.runs)>>,
       <<"ASSEMBLYNAME", assembly_alias(g, a.runs, get_md5(a.assembly_path))>>,
       <<"COVERAGE", a.coverage>>,
       <<"ASSEMBLY_TYPE", "primary metagenome">>,
       <<"PROGRAM", a.assembler \o " v" \o a.assembler_version>>,
       <<"PLATFORM", a.sequencer>>,
       <<"FASTA", a.assembly_path>>,
       <<"TPA", BoolLower(g.tpa)>> >>

\* the tuple `values' of generate_manifest
values(g, a) ==
    LET assembly_md5 == get_md5(a.assembly_path) IN
    << <<"STUDY", g.new_project>>,
       <<"SAMPLE", a.sample>>,
       <<"RUN_REF", Join(a.runs)>>,
       <<"ASSEMBLYNAME", assembly_alias(g, a.runs, assembly_md5)>>,
       <<"ASSEMBLY_TYPE", "primary metagenome">>,
       <<"COVERAGE", a.coverage>>,
       <<"PROGRAM", a.assembler \o " v" \o a.assembler_version>>,
       <<"PLATFORM", a.sequencer>>,
       <<"FASTA", a.assembly_path>>,
       <<"TPA", BoolLower(g.tpa)>> >>

\* the chunks outfile.write receives, in order
ManifestText(g, a) ==
    LET v == values(g, a) IN
    [i \in 1..Len(v) |-> v[i][1] \o "\t" \o v[i][2] \o "\n"]

\* open(path, "w") and the writes: the file is created or replaced
WriteFile(disk, path, content) ==
    [p \in DOMAIN disk \cup {path} |-> IF p = path THEN content ELSE disk[p]]

\* mutant: an existing manifest is never rewritten
SkipExisting_always(g, disk, path) == path \in DOMAIN disk

\* mutant: an existing manifest is always rewritten
SkipExisting_never(g, disk, path) == FALSE

\* mutant: an existing manifest is skipped when force is on, rewritten when off
SkipExisting_inverted(g, disk, path) == path \in DOMAIN disk /\ g.force

\* the skip of an existing manifest
SkipExisting(g, disk, path) == path \in DOMAIN disk /\ ~g.force

\* generate_manifest: the returned value, the files afterwards, the branch taken
generate_manifest(g, disk, a) ==
    IF ~PathExists(a.assembly_path)
    THEN [ret |-> None, manifests |-> disk, outcome |-> "missing"]
    ELSE IF ~EndsWithAny(a.assembly_path, valid_extensions)
    THEN [ret |-> None, manifests |-> disk, outcome |-> "bad_extension"]
    ELSE LET path == manifest_path(g, get_md5(a.assembly_path)) IN
         IF SkipExisting(g, disk, path)
         THEN [ret |-> <<path>>, manifests |-> disk, outcome |-> "exists"]
         ELSE [ret |-> <<path>>,
               manifests |-> WriteFile(disk, path, ManifestText(g, a)),
               outcome |-> "written"]

\* mutant: runs that disagree are given the sample of one of them
ResolveSample_any(sample_accessions, row) ==
    IF Truthy(row.Sample) /\ Cardinality(sample_accessions) # 1
    THEN <<row.Sample[1]>>
    ELSE <<CHOOSE s \in sample_accessions : TRUE>>

\* mutant: a Sample value of the row is used whenever the row gives one
ResolveSample_override(sample_accessions, row) ==
    IF Truthy(row.Sample) THEN <<row.Sample[1]>>
    ELSE IF Cardinality(sample_accessions) = 1
    THEN <<CHOOSE s \in sample_accessions : TRUE>>
    ELSE None

\* the sample accession of a row: <<accession>>, or None when the row is skipped
ResolveSample(sample_accessions, row) ==
    IF Cardinality(sample_accessions) = 1
    THEN <<CHOOSE s \in sample_accessions : TRUE>>
    ELSE IF Truthy(row.Sample) THEN <<row.Sample[1]>>
    ELSE None

\* the first run of the row that the archive cannot resolve, 0 if all resolve
FirstUnresolved(g, runs) ==
    IF \A i \in 1..Len(runs) : RunResolves(runs[i], g.private) THEN 0
    ELSE CHOOSE i \in 1..Len(runs) :
            /\ ~RunResolves(runs[i], g.private)
            /\ \A j \in 1..(i - 1) : RunResolves(runs[j], g.private)

\* mutant: the exception is caught and the row skipped
OnFetchFailure_caught == "skipped"

\* what an exception of build_query does to the loop of write_manifests
OnFetchFailure == "raised"

\* the instrument models the archive knows
InstrumentModels == {EnaRuns[r].instrument_model : r \in DOMAIN EnaRuns}

\* str hashes are salted anew for each interpreter (PYTHONHASHSEED is random
\* unless set), and a set of str is iterated in the order of the hashes: a
\* seed is the order in which it places the instrument models
HashSeeds == Orders(InstrumentModels)

\* the order in which iterating the set S yields its elements under a seed
IterationOrder(seed, S) == SelectSeq(seed, LAMBDA x : x \in S)

\* one iteration of the loop of write_manifests, `order' being the order in
\* which the set of instruments is iterated by ",".join
write_manifests_row(g, disk, row, order) ==
    LET runs == Split(row.Runs)
        sample_accessions ==
            {BuildRunQuery(runs[i], g.private).sample_accession : i \in 1..Len(runs)}
        sample == ResolveSample(sample_accessions, row)
        a == Args(runs, sample[1], Join(order), row.Coverage, row.Assembler,
                  row.Version, PathOf(row.Filepath))
        r == generate_manifest(g, disk, a)
    IN  IF FirstUnresolved(g, runs) # 0
        THEN [outcome |-> OnFetchFailure, ret |-> None, manifests |-> disk, args |-> None]
        ELSE IF sample = None
        THEN [outcome |-> "skipped", ret |-> None, manifests |-> disk, args |-> None]
        ELSE [outcome |-> r.outcome, ret |-> r.ret, manifests |-> r.manifests,
              args |-> <<a>>]

\* the instrument models of the runs of a row (of those that resolve)
Instruments(g, row) ==
    LET runs == Split(row.Runs) IN
    {BuildRunQuery(runs[i], g.private).instrument_model :
        i \in {j \in 1..Len(runs) : RunResolves(runs[j], g.private)}}

Study == "ERP125469"

\* AssemblyManifestGenerator.__init__
NewGenerator(force, private, tpa, test) ==
    [study |-> Study, new_project |-> "PRJ1", upload_dir |-> UploadDir(Study),
     force |-> force, private |-> private, tpa |-> tpa, test |-> test]


\* the arguments a caller of the class may pass to generate_manifest
DirectArgs ==
    { Args(<<"ERR1">>, "SAMEA1", "DNBSEQ-G400", "11", "megahit", "1.2.9", "a.fa.gz"),
      Args(<<"ERR2", "ERR3">>, "SAMEA2", "Illumina MiSeq", "12", "spades", "3.15",
           "b.fasta.gz"),
      Args(<<"ERR1">>, "SAMEA1", "DNBSEQ-G400", "14", "megahit", "1.2.9", "e.fa"),
      Args(<<"ERR1">>, "SAMEA1", "DNBSEQ-G400", "16", "megahit", "1.2.9",
           "missing.fa.gz") }

NoFiles == [p \in {} |-> <<>>]

Op(op, outcome, ret, args, row, existed) ==
    [op |-> op, outcome |-> outcome, ret |-> ret, args |-> args, row |-> row,
     existed |-> existed]

\* whether the manifest of the assembly file of `a' is on disk
ManifestOnDisk(g, disk, a) ==
    /\ a.assembly_path \in DOMAIN AssemblyFiles
    /\ manifest_path(g, get_md5(a.assembly_path)) \in DOMAIN disk

\* write_manifests: one iteration of `for row in self.metadata'; the reader
\* yields the next row of the CSV file
WriteManifestsRow ==
    /\ pc = "running"
    /\ rows_read < MaxRows
    /\ \E row \in Rows :
          LET order == IterationOrder(hashseed, Instruments(gen, row))
              r == write_manifests_row(gen, manifests, row, order)
          IN
          /\ manifests' = r.manifests
          /\ pc' = IF r.outcome = "raised" THEN "failed" ELSE "running"
          /\ last' = Op("write_manifests", r.outcome, r.ret, r.args, <<row>>,
                        r.args # None /\ ManifestOnDisk(gen, manifests, r.args[1]))
    /\ rows_read' = rows_read + 1
    /\ UNCHANGED <<dirs, gen, passes, calls, hashseed, xmlVars>>

\* write_manifests: the reader is exhausted and the loop ends
WriteManifestsEnd ==
    /\ pc = "running"
    /\ pc' = "done"
    /\ last' = Op("write_manifests", "done", None, None, None, FALSE)
    /\ UNCHANGED <<dirs, manifests, gen, rows_read, passes, calls, hashseed,
                   xmlVars>>

\* a call of generate_manifest by a user of the class, before write_manifests
\* has read a row or after it has returned or raised
GenerateManifestCall ==
    /\ calls < MaxCalls
    /\ pc # "running" \/ rows_read = 0
    /\ \E a \in DirectArgs :
          LET r == generate_manifest(gen, manifests, a) IN
          /\ manifests' = r.manifests
          /\ last' = Op("generate_manifest", r.outcome, r.ret, <<a>>, None,
                        ManifestOnDisk(gen, manifests, a))
    /\ calls' = calls + 1
    /\ UNCHANGED <<dirs, gen, rows_read, pc, passes, hashseed, xmlVars>>

\* the program is run again on the same upload directory, by a new interpreter:
\* AssemblyManifestGenerator.__init__ opens the CSV and makes the directory
NewManifestGenerator ==
    /\ passes < MaxPasses
    /\ pc # "running"
    /\ \E force \in BOOLEAN :
          gen' = NewGenerator(force, gen.private, gen.tpa, gen.test)
    /\ hashseed' \in HashSeeds
    /\ rows_read' = 0
    /\ dirs' = dirs \cup {UploadDir(Study)}
    /\ pc' = "running"
    /\ passes' = passes + 1
    /\ last' = Op("construct", "ok", None, None, None, FALSE)
    /\ UNCHANGED <<manifests, calls, xmlVars>>

----------------------------------------------------------------------------
(* datetime and the str operations of study_xmls.py *)

\* the days the program may run on, consecutive; `today' indexes them
Calendar ==
    << [y |-> 2022, m |-> 7, d |-> 31],
       [y |-> 2022, m |-> 8, d |-> 1],
       [y |-> 2022, m |-> 8, d |-> 2],
       [y |-> 2022, m |-> 8, d |-> 3] >>

Digit(n) == SubSeq("0123456789", n + 1, n + 1)

\* a number printed with `width' digits, zero padded
RECURSIVE Pad(_, _)
Pad(n, width) ==
    IF width = 0 THEN "" ELSE Pad(n \div 10, width - 1) \o Digit(n % 10)

\* datetime.strftime("%Y-%m-%d") and datetime.strftime("%d-%m-%Y")
strftime_Ymd(dt) == Pad(dt.y, 4) \o "-" \o Pad(dt.m, 2) \o "-" \o Pad(dt.d, 2)
strftime_dmY(dt) == Pad(dt.d, 2) \o "-" \o Pad(dt.m, 2) \o "-" \o Pad(dt.y, 4)

\* ord() of the characters of a date string, in code point order
Ord(c) == Find("-0123456789", c)

\* a > b for str: the first differing character decides, a proper prefix is less
RECURSIVE StrGreater(_, _)
StrGreater(a, b) ==
    IF Len(a) = 0 THEN FALSE
    ELSE IF Len(b) = 0 THEN TRUE
    ELSE IF SubSeq(a, 1, 1) # SubSeq(b, 1, 1)
         THEN Ord(SubSeq(a, 1, 1)) > Ord(SubSeq(b, 1, 1))
    ELSE StrGreater(SubSeq(a, 2, Len(a)), SubSeq(b, 2, Len(b)))

\* str.title() of a word of lower case letters
Title(s) ==
    LET lower == "abcdefghijklmnopqrstuvwxyz"
        upper == "ABCDEFGHIJKLMNOPQRSTUVWXYZ"
        i == Find(lower, SubSeq(s, 1, 1))
    IN  IF i = 0 THEN s ELSE SubSeq(upper, i, i) \o SubSeq(s, 2, Len(s))

\* str(int) of a publication identifier
RECURSIVE IntStr(_)
IntStr(n) == IF n < 10 THEN Digit(n) ELSE IntStr(n \div 10) \o Digit(n % 10)

----------------------------------------------------------------------------
(* StudyXMLGenerator *)

METAGENOME == "metagenome"
METATRANSCRIPTOME == "metatranscriptome"

\* hold_date: None, a datetime (the class's parameter type) or the str that
\* main passes on from the --hold option
NoHold == [kind |-> "none", dt |-> Calendar[1], s |-> ""]
HoldDatetime(dt) == [kind |-> "datetime", dt |-> dt, s |-> ""]
HoldStr(s) == [kind |-> "str", dt |-> Calendar[1], s |-> s]

\* bool(self.hold_date)
HoldTruthy(h) == h.kind = "datetime" \/ (h.kind = "str" /\ h.s # "")

\* the study records the archive may hold for the study accession
StudyRecord(first_public) ==
    [study_accession |-> "PRJEB41657",
     study_title |-> "HoloFood Salmon Trial A+B Gut Metagenome",
     first_public |-> first_public]

Archives ==
    { None, <<StudyRecord("2022-08-01")>>, <<StudyRecord("2022-08-02")>>,
      <<StudyRecord("2021-12-31")>> }

\* the arguments StudyXMLGenerator may be constructed with
Config(library, hold_date, tpa, publication) ==
    [study |-> Study, center_name |-> "EMG", library |-> library,
     hold_date |-> hold_date, tpa |-> tpa, publication |-> publication,
     private |-> FALSE]

Configs ==
    { Config(METAGENOME, NoHold, TRUE, <<1234>>),
      Config(METAGENOME, NoHold, FALSE, None),
      Config(METATRANSCRIPTOME, HoldDatetime([y |-> 2023, m |-> 1, d |-> 15]), FALSE,
             <<0>>),
      Config(METAGENOME, HoldStr("15-01-2023"), TRUE, None),
      Config(METATRANSCRIPTOME, HoldStr(""), TRUE, <<1234>>),
      Config("genome", NoHold, TRUE, <<1234>>),
      Config("Metagenome", HoldDatetime([y |-> 2022, m |-> 7, d |-> 31]), FALSE, None) }

\* an xml.etree element
Element(tag, attrs, text, children) ==
    [tag |-> tag, attrs |-> attrs, text |-> text, children |-> children]

Leaf(tag, text) == Element(tag, <<>>, <<text>>, <<>>)

\* mutant: the assert is missing
LibraryAccepted_all(library) == TRUE

\* the assert of __init__
LibraryAccepted(library) == library \in {METAGENOME, METATRANSCRIPTOME}

\* StudyXMLGenerator.__init__ once the assert has passed and the study resolved
NewStudyXMLGenerator(c, study_obj) ==
    [study |-> c.study,
     upload_dir |-> UploadDir(c.study),
     study_xml_path |-> UploadDir(c.study) \o "/" \o c.study \o "_reg.xml",
     submission_xml_path |-> UploadDir(c.study) \o "/" \o c.study \o "_submission.xml",
     center |-> c.center_name, hold_date |-> c.hold_date, library |-> c.library,
     tpa |-> c.tpa, publication |-> c.publication, private |-> c.private,
     study_obj |-> study_obj, title |-> None, abstract |-> None]

\* the TITLE and DESCRIPTION texts of write_study_xml
study_title(g) ==
    Title(g.library) \o " assembly of " \o g.study_obj.study_accession
        \o " data set (" \o g.study_obj.study_title \o ")"

study_abstract(g) ==
    "The " \o (IF g.tpa THEN "Third Party Annotation (TPA) " ELSE "")
        \o "assembly was derived from the primary data set "
        \o g.study_obj.study_accession

\* `if self.publication': None and 0 are false
PublicationTruthy(pub) == pub # None /\ pub[1] # 0

ProjectAttribute(tag, value) ==
    Element("PROJECT_ATTRIBUTE", <<>>, None, <<Leaf("TAG", tag), Leaf("VALUE", value)>>)

\* the PROJECT_SET tree that write_study_xml builds
study_xml(g) ==
    LET links ==
            IF PublicationTruthy(g.publication)
            THEN << Element("PROJECT_LINKS", <<>>, None,
                     << Element("PROJECT_LINK", <<>>, None,
                         << Element("XREF_LINK", <<>>, None,
                             << Leaf("DB", "PUBMED"),
                                Leaf("ID", IntStr(g.publication[1])) >>) >>) >>) >>
            ELSE <<>>
        attributes ==
            (IF g.tpa THEN <<ProjectAttribute("study keyword", "TPA:assembly")>>
             ELSE <<>>)
            \o <<ProjectAttribute("new_study_type", g.library \o " assembly")>>
        project ==
            Element("PROJECT",
                    << <<"alias", g.study_obj.study_accession \o "_assembly">>,
                       <<"center_name", g.center>> >>,
                    None,
                    << Leaf("TITLE", study_title(g)),
                       Leaf("DESCRIPTION", study_abstract(g)),
                       Element("SUBMISSION_PROJECT", <<>>, None,
                               <<Element("SEQUENCING_PROJECT", <<>>, None, <<>>)>>) >>
                    \o links
                    \o <<Element("PROJECT_ATTRIBUTES", <<>>, None, attributes)>>)
    IN  Element("PROJECT_SET", <<>>, None, <<project>>)

Action(tag, attrs) ==
    Element("ACTION", <<>>, None, <<Element(tag, attrs, None, <<>>)>>)

\* whether the hold branch of write_submission_xml raises: str has no strftime
HoldRaises(g) == HoldTruthy(g.hold_date) /\ g.hold_date.kind = "str"

\* the ACTION elements after ADD that write_submission_xml builds on day `now'
hold_actions(g, now) ==
    LET public == g.study_obj.first_public
        today_str == strftime_Ymd(now)
    IN  IF HoldTruthy(g.hold_date)
        THEN <<Action("HOLD", << <<"HoldUntilDate", strftime_dmY(g.hold_date.dt)>> >>)>>
        ELSE IF StrGreater(public, today_str) /\ ~HoldTruthy(g.hold_date)
        THEN <<Action("HOLD", << <<"HoldUntilDate", public>> >>)>>
        ELSE <<>>

\* the SUBMISSION tree that write_submission_xml builds on day `now'
submission_xml(g, now) ==
    Element("SUBMISSION", << <<"center_name", g.center>> >>, None,
            << Element("ACTIONS", <<>>, None,
                       <<Action("ADD", <<>>)>> \o hold_actions(g, now)) >>)

\* open(path, "wb"): the file is created, or emptied when it exists
OpenWb(disk, path) == WriteFile(disk, path, <<>>)

\* file.write(document) on the file just opened
WriteDocument(disk, path, doc) == WriteFile(disk, path, <<doc>>)

\* mutant: an existing registration XML is skipped
write_study_xml_skip(g, disk) ==
    IF g.study_xml_path \in DOMAIN disk THEN disk
    ELSE WriteDocument(OpenWb(disk, g.study_xml_path), g.study_xml_path, study_xml(g))

\* write_study_xml: the files afterwards
write_study_xml(g, disk) ==
    WriteDocument(OpenWb(disk, g.study_xml_path), g.study_xml_path, study_xml(g))

\* write_submission_xml: the files afterwards and whether it raised
write_submission_xml(g, disk, now) ==
    LET opened == OpenWb(disk, g.submission_xml_path) IN
    IF HoldRaises(g)
    THEN [xmls |-> opened, outcome |-> "raised"]
    ELSE [xmls |-> WriteDocument(opened, g.submission_xml_path, submission_xml(g, now)),
          outcome |-> "written"]

\* what a write found at `path' and left there
Found(disk, after, path) ==
    IF path \notin DOMAIN disk THEN "created"
    ELSE IF after[path] = disk[path] THEN "same"
    ELSE "replaced"

XmlIdle ==
    /\ xmls = NoFiles
    /\ reg = None
    /\ ena = None
    /\ ena_calls = 0
    /\ today = 1
    /\ ticks = 0
    /\ builds = 0
    /\ updates = 0

\* the --private, --tpa and --test flags the program is started with
Flags ==
    { [private |-> FALSE, tpa |-> FALSE, test |-> FALSE],
      [private |-> TRUE,  tpa |-> TRUE,  test |-> TRUE] }

InitManifest ==
    /\ \E force \in BOOLEAN, f \in Flags :
          gen = NewGenerator(force, f.private, f.tpa, f.test)
    /\ hashseed \in HashSeeds
    /\ rows_read = 0
    /\ dirs = {UploadDir(Study)}
    /\ manifests = NoFiles
    /\ pc = "running"
    /\ passes = 1
    /\ calls = 0
    /\ last = Op("construct", "ok", None, None, None, FALSE)
    /\ XmlIdle

NextManifest ==
    \/ WriteManifestsRow
    \/ WriteManifestsEnd
    \/ GenerateManifestCall
    \/ NewManifestGenerator

SpecManifest == InitManifest /\ [][NextManifest]_vars


ManifestIdle ==
    /\ gen = NewGenerator(FALSE, FALSE, FALSE, FALSE)
    /\ rows_read = 0
    /\ manifests = NoFiles
    /\ pc = "done"
    /\ passes = 0
    /\ calls = 0
    /\ hashseed = CHOOSE seed \in HashSeeds : TRUE

\* mutant: the study record is fetched a second time
ConstructorSteps_refetch == <<"mkdir", "assert", "build_query", "build_query">>

\* mutant: the library is checked before the directory is made
ConstructorSteps_assert_first == <<"assert", "mkdir", "build_query">>

\* the steps of StudyXMLGenerator.__init__ that act on the disk or the
\* archive, or can raise, in the order of the code
ConstructorSteps == <<"mkdir", "assert", "build_query">>

\* the step at which the constructor raises, 0 if it returns
ConstructorFailsAt(c, archive) ==
    LET fails(i) ==
            \/ ConstructorSteps[i] = "assert" /\ ~LibraryAccepted(c.library)
            \/ ConstructorSteps[i] = "build_query" /\ archive = None
    IN  IF \A i \in 1..Len(ConstructorSteps) : ~fails(i) THEN 0
        ELSE CHOOSE i \in 1..Len(ConstructorSteps) :
                fails(i) /\ \A j \in 1..(i - 1) : ~fails(j)

\* the positions of the constructor steps `step' that were run
ConstructorRan(step, c, archive) ==
    LET stop == ConstructorFailsAt(c, archive) IN
    {i \in 1..Len(ConstructorSteps) :
        ConstructorSteps[i] = step /\ (stop = 0 \/ i <= stop)}

\* StudyXMLGenerator(...): mkdir, the assert on library, then the query
ConstructStudyXMLGenerator ==
    /\ builds < MaxBuilds
    /\ \E c \in Configs :
          LET stop == ConstructorFailsAt(c, ena) IN
          /\ dirs' = IF ConstructorRan("mkdir", c, ena) # {}
                     THEN dirs \cup {UploadDir(c.study)} ELSE dirs
          /\ ena_calls' = ena_calls + Cardinality(ConstructorRan("build_query", c, ena))
          /\ reg' = IF stop = 0 THEN <<NewStudyXMLGenerator(c, ena[1])>> ELSE None
          /\ last' = Op("StudyXMLGenerator",
                        IF stop = 0 THEN "ok"
                        ELSE IF ConstructorSteps[stop] = "assert" THEN "AssertionError"
                        ELSE "unresolved",
                        None, <<c>>, None, FALSE)
    /\ builds' = builds + 1
    /\ UNCHANGED <<xmls, ena, today, ticks, updates, manifestVars>>

\* study_reg.write_study_xml()
WriteStudyXml ==
    /\ reg # None
    /\ LET g == reg[1]
           after == write_study_xml(g, xmls)
       IN  /\ xmls' = after
           /\ reg' = <<[g EXCEPT !.title = <<study_title(g)>>,
                                 !.abstract = <<study_abstract(g)>>]>>
           /\ last' = Op("write_study_xml", Found(xmls, after, g.study_xml_path),
                         None, None, None, g.study_xml_path \in DOMAIN xmls)
    /\ UNCHANGED <<dirs, ena, ena_calls, today, ticks, builds, updates, manifestVars>>

\* study_reg.write_submission_xml()
WriteSubmissionXml ==
    /\ reg # None
    /\ LET g == reg[1]
           r == write_submission_xml(g, xmls, Calendar[today])
       IN  /\ xmls' = r.xmls
           /\ last' = Op("write_submission_xml",
                         IF r.outcome = "raised" THEN "raised"
                         ELSE Found(xmls, r.xmls, g.submission_xml_path),
                         None, None, None, g.submission_xml_path \in DOMAIN xmls)
    /\ UNCHANGED <<dirs, reg, ena, ena_calls, today, ticks, builds, updates,
                   manifestVars>>

\* study_reg.write(): write_study_xml, then write_submission_xml
Write ==
    /\ reg # None
    /\ LET g == reg[1]
           first == write_study_xml(g, xmls)
           r == write_submission_xml(g, first, Calendar[today])
       IN  /\ xmls' = r.xmls
           /\ reg' = <<[g EXCEPT !.title = <<study_title(g)>>,
                                 !.abstract = <<study_abstract(g)>>]>>
           /\ last' = Op("write",
                         IF r.outcome = "raised" THEN "raised"
                         ELSE Found(xmls, r.xmls, g.submission_xml_path),
                         None, None, None, g.submission_xml_path \in DOMAIN xmls)
    /\ UNCHANGED <<dirs, ena, ena_calls, today, ticks, builds, updates, manifestVars>>

\* midnight passes
Tick ==
    /\ ticks < MaxTicks
    /\ today < Len(Calendar)
    /\ today' = today + 1
    /\ ticks' = ticks + 1
    /\ last' = Op("tick", "ok", None, None, None, FALSE)
    /\ UNCHANGED <<dirs, xmls, reg, ena, ena_calls, builds, updates, manifestVars>>

\* the archive's record of the study changes after a generator has read it
ArchiveUpdate ==
    /\ updates < MaxUpdates
    /\ reg # None
    /\ ena' \in Archives \ {ena}
    /\ updates' = updates + 1
    /\ last' = Op("archive", "ok", None, None, None, FALSE)
    /\ UNCHANGED <<dirs, xmls, reg, ena_calls, today, ticks, builds, manifestVars>>

InitXml ==
    /\ dirs = {}
    /\ xmls = NoFiles
    /\ reg = None
    /\ ena \in Archives
    /\ ena_calls = 0
    /\ today \in 1..2
    /\ ticks = 0
    /\ builds = 0
    /\ updates = 0
    /\ last = Op("start", "ok", None, None, None, FALSE)
    /\ ManifestIdle

NextXml ==
    \/ ConstructStudyXMLGenerator
    \/ WriteStudyXml
    \/ WriteSubmissionXml
    \/ Write
    \/ Tick
    \/ ArchiveUpdate

SpecXml == InitXml /\ [][NextXml]_vars

----------------------------------------------------------------------------
(* Properties of the manifest generator *)

\* the key and the value of a manifest line "KEY\tVALUE\n"
Key(line) == SubSeq(line, 1, Find(line, "\t") - 1)
Value(line) == SubSeq(line, Find(line, "\t") + 1, Len(line) - 1)

\* the step just taken called generate_manifest
Called(l) == l.op \in {"write_manifests", "generate_manifest"} /\ l.args # None

\* a row whose runs all resolve, to more than one sample, with no override
Ambiguous(row) ==
    LET runs == Split(row.Runs) IN
    /\ \A i \in 1..Len(runs) : runs[i] \in DOMAIN EnaRuns
    /\ Cardinality({EnaRuns[runs[i]].sample_accession : i \in 1..Len(runs)}) > 1
    /\ (row.Sample = None \/ row.Sample = <<"">>)

\* C1: a row whose runs resolve to several samples and that gives no Sample
\* override is skipped: no manifest is created or changed, nothing is raised
\* and the loop goes on to the next row.
C1_AmbiguousRowSkipped ==
    [][(last'.op = "write_manifests" /\ last'.row # None /\ Ambiguous(last'.row[1]))
        => (/\ manifests' = manifests
            /\ pc' = "running"
            /\ last'.outcome = "skipped"
            /\ last'.ret = None)]_vars

C1_Witness ==
    /\ last.op = "write_manifests"
    /\ last.outcome = "skipped"
    /\ last.row # None /\ Ambiguous(last.row[1])
    /\ pc = "running"
    /\ rows_read < MaxRows
    /\ DOMAIN manifests # {}

\* an assembly path that is no file, or whose name has no accepted ending
Rejected(path) ==
    \/ ~(path \in DOMAIN AssemblyFiles \/ path = ".")
    \/ ~(EndsWith(path, ".fa.gz") \/ EndsWith(path, ".fna.gz")
            \/ EndsWith(path, ".fasta.gz"))

\* C2: generate_manifest on a missing assembly file or on a name without an
\* accepted ending returns None, raises nothing, leaves every file of the
\* upload directory as it was, and the batch goes on.
C2_SoftFailure ==
    [][(Called(last') /\ Rejected(last'.args[1].assembly_path))
        => (/\ last'.ret = None
            /\ manifests' = manifests
            /\ dirs' = dirs
            /\ (last'.op = "write_manifests" => pc' = "running"))]_vars

C2_Witness ==
    /\ last.op = "write_manifests"
    /\ Called(last)
    /\ last.args[1].assembly_path = "d.txt"
    /\ last.outcome = "bad_extension"
    /\ pc = "running"
    /\ DOMAIN manifests # {}

\* the path of the manifest of an accepted assembly file
ExpectedPath(g, path) ==
    UploadDir(g.study) \o "/" \o Md5Hex(AssemblyFiles[path]) \o ".manifest"

\* C3: with force off, a call of generate_manifest whose manifest is already
\* on disk leaves it as it is and returns its path; no call changes a
\* manifest that exists.
C3_ExistingKept ==
    [][(Called(last') /\ ~gen.force)
        => (/\ \A p \in DOMAIN manifests :
                  p \in DOMAIN manifests' /\ manifests'[p] = manifests[p]
            /\ LET path == last'.args[1].assembly_path IN
               (~Rejected(path) /\ ExpectedPath(gen, path) \in DOMAIN manifests)
                  => (/\ last'.ret = <<ExpectedPath(gen, path)>>
                      /\ manifests' = manifests))]_vars

C3_Witness ==
    /\ Called(last)
    /\ ~gen.force
    /\ last.existed
    /\ last.ret # None
    /\ manifests[last.ret[1]] # ManifestText(gen, last.args[1])

\* C4: with force on, generate_manifest on an existing, validly named assembly
\* file writes the manifest also when it is already there: afterwards the file
\* holds the ten lines of this call's arguments, and the path is returned.
C4_ForceRewrites ==
    (Called(last) /\ gen.force /\ ~Rejected(last.args[1].assembly_path))
        => LET path == ExpectedPath(gen, last.args[1].assembly_path) IN
           /\ last.ret = <<path>>
           /\ path \in DOMAIN manifests
           /\ Len(manifests[path]) = 10
           /\ manifests[path] = ManifestText(gen, last.args[1])

C4_Witness ==
    /\ Called(last)
    /\ gen.force
    /\ last.existed
    /\ last.outcome = "written"
    /\ passes > 1

ManifestKeys ==
    <<"STUDY", "SAMPLE", "RUN_REF", "ASSEMBLYNAME", "ASSEMBLY_TYPE", "COVERAGE",
      "PROGRAM", "PLATFORM", "FASTA", "TPA">>

\* C6: every manifest on disk has exactly ten lines KEY<TAB>VALUE<LF>, the keys
\* being STUDY .. TPA in the fixed order, and its ASSEMBLY_TYPE is
\* "primary metagenome".
C6_TenLines ==
    \A p \in DOMAIN manifests :
        LET f == manifests[p] IN
        /\ Len(f) = 10
        /\ \A i \in 1..10 :
              /\ Key(f[i]) = ManifestKeys[i]
              /\ EndsWith(f[i], "\n")
              /\ Find(Value(f[i]), "\n") = 0
        /\ Value(f[5]) = "primary metagenome"

C6_Witness ==
    /\ Cardinality(DOMAIN manifests) = 2
    /\ passes > 1
    /\ last.outcome = "written"

\* a row one of whose runs the archive cannot resolve
Unresolvable(row) ==
    LET runs == Split(row.Runs) IN
    \E i \in 1..Len(runs) : runs[i] \notin DOMAIN EnaRuns

\* C7: when the archive cannot resolve a run of a row, write_manifests fails
\* at that row: the row writes nothing, the manifests of earlier rows stay as
\* they are, and no later row is processed by this pass.
C7_FetchFailureStops ==
    [][/\ (last'.op = "write_manifests" /\ last'.row # None
              /\ Unresolvable(last'.row[1]))
           => (manifests' = manifests /\ pc' = "failed" /\ last'.outcome = "raised")
       /\ (pc = "failed" /\ passes' = passes)
           => (pc' = "failed" /\ rows_read' = rows_read
                 /\ last'.op # "write_manifests")]_vars

C7_Witness ==
    /\ pc = "failed"
    /\ last.op = "write_manifests"
    /\ last.outcome = "raised"
    /\ rows_read > 1
    /\ DOMAIN manifests # {}

----------------------------------------------------------------------------
(* Properties of the registration generator *)

XmlWrites == {"write_study_xml", "write_submission_xml", "write"}

\* C8 as stated: the XML generator has no force setting, so force is never
\* set, and a write that finds a file at its output path leaves it unchanged.
C8_ExistingXmlKept ==
    [][(last'.op \in XmlWrites)
        => \A p \in DOMAIN xmls : xmls'[p] = xmls[p]]_vars

\* C8 (amended): the XML generator has no force setting and never skips: a
\* write opens its output file for writing, which discards what was there;
\* write_study_xml leaves the newly built document in it, write_submission_xml
\* does too unless it raises on a str hold date, which leaves the file empty.
C8_XmlOverwritten ==
    /\ (last.op \in {"write_study_xml", "write"})
          => (/\ reg # None
              /\ reg[1].study_xml_path \in DOMAIN xmls
              /\ xmls[reg[1].study_xml_path] = <<study_xml(reg[1])>>)
    /\ (last.op \in {"write_submission_xml", "write"})
          => (/\ reg # None
              /\ reg[1].submission_xml_path \in DOMAIN xmls
              /\ xmls[reg[1].submission_xml_path] =
                    IF reg[1].hold_date.kind = "str" /\ reg[1].hold_date.s # ""
                    THEN <<>>
                    ELSE <<submission_xml(reg[1], Calendar[today])>>)

C8_Witness ==
    /\ last.op = "write_study_xml"
    /\ last.existed
    /\ last.outcome = "replaced"

\* the ACTION children of the ACTIONS element of a SUBMISSION document
ActionsOf(doc) == doc.children[1].children

\* the ACTION elements that hold a child `tag'
WithChild(actions, tag) ==
    {i \in 1..Len(actions) : actions[i].children[1].tag = tag}

\* the date of a day, compared as a number
DayNumber(y, m, d) == (y * 100 + m) * 100 + d

\* "YYYY-MM-DD" read as a day number
IsoNumber(s) ==
    LET n(i) == Find("0123456789", SubSeq(s, i, i)) - 1 IN
    DayNumber(n(1) * 1000 + n(2) * 100 + n(3) * 10 + n(4),
              n(6) * 10 + n(7), n(9) * 10 + n(10))

\* C9: the submission XML holds exactly one ADD and at most one HOLD: with an
\* explicit hold date one HOLD with that date as dd-mm-yyyy; with none and
\* first_public later than today one HOLD with first_public as it is; with
\* none and first_public today or earlier no HOLD.
C9_SubmissionActions ==
    (last.op \in {"write_submission_xml", "write"})
        => LET g == reg[1]
               f == xmls[g.submission_xml_path]
               now == Calendar[today]
               explicit == g.hold_date.kind = "datetime"
                              \/ (g.hold_date.kind = "str" /\ g.hold_date.s # "")
               later == IsoNumber(g.study_obj.first_public)
                           > DayNumber(now.y, now.m, now.d)
               until == IF g.hold_date.kind = "str" /\ g.hold_date.s # ""
                        THEN g.hold_date.s
                        ELSE IF g.hold_date.kind = "datetime"
                        THEN Pad(g.hold_date.dt.d, 2) \o "-" \o Pad(g.hold_date.dt.m, 2)
                                \o "-" \o Pad(g.hold_date.dt.y, 4)
                        ELSE g.study_obj.first_public
           IN  /\ Len(f) = 1
               /\ Cardinality(WithChild(ActionsOf(f[1]), "ADD")) = 1
               /\ Cardinality(WithChild(ActionsOf(f[1]), "HOLD"))
                     = (IF explicit \/ later THEN 1 ELSE 0)
               /\ \A i \in WithChild(ActionsOf(f[1]), "HOLD") :
                     ActionsOf(f[1])[i].children[1].attrs
                        = << <<"HoldUntilDate", until>> >>

\* the VALUE of the last PROJECT_ATTRIBUTE of a PROJECT_SET document
StudyType(doc) ==
    LET project == doc.children[1]
        attributes == project.children[Len(project.children)]
        type == attributes.children[Len(attributes.children)]
    IN  type.children[2].text[1]

\* C10: constructing the generator with a library other than metagenome or
\* metatranscriptome fails: no generator exists afterwards, and no
\* registration XML on disk was written for such a library.
C10_LibraryChecked ==
    /\ (last.op = "StudyXMLGenerator"
          /\ last.args[1].library \notin {"metagenome", "metatranscriptome"})
          => (reg = None /\ last.outcome = "AssertionError")
    /\ reg # None => reg[1].library \in {"metagenome", "metatranscriptome"}
    /\ \A p \in DOMAIN xmls :
          (EndsWith(p, "_reg.xml") /\ xmls[p] # <<>>)
              => StudyType(xmls[p][1]) \in {"metagenome assembly",
                                            "metatranscriptome assembly"}

C10_Witness ==
    /\ last.op = "StudyXMLGenerator"
    /\ last.outcome = "AssertionError"
    /\ last.args[1].library = "genome"
    /\ reg = None
    /\ Cardinality(DOMAIN xmls) = 2

----------------------------------------------------------------------------
(* Further properties of the manifest generator *)

\* the sample accessions the archive holds for the runs of a row
SamplesOf(row) ==
    LET runs == Split(row.Runs) IN
    {EnaRuns[runs[i]].sample_accession : i \in 1..Len(runs)}

\* C11: when the runs of a row agree on one sample accession, that accession
\* is the SAMPLE of its manifest, also when the row gives a Sample override;
\* the override is written only when the runs resolve to several accessions.
C11_SampleField ==
    (last.op = "write_manifests" /\ last.args # None)
        => LET row == last.row[1]
               expected == IF Cardinality(SamplesOf(row)) = 1
                           THEN CHOOSE s \in SamplesOf(row) : TRUE
                           ELSE row.Sample[1]
           IN  /\ last.args[1].sample = expected
               /\ last.outcome = "written"
                     => /\ Key(manifests[last.ret[1]][2]) = "SAMPLE"
                        /\ Value(manifests[last.ret[1]][2]) = expected

C11_Witness ==
    /\ last.op = "write_manifests"
    /\ last.outcome = "written"
    /\ last.row[1].Sample = <<"SAMEA9">>
    /\ SamplesOf(last.row[1]) = {"SAMEA1"}
    /\ Value(manifests[last.ret[1]][2]) = "SAMEA1"

\* C12: in test mode the ASSEMBLYNAME of a written manifest is the alias
\* {run}[_others]_{digest} followed by "_" and a hash, so the manifest differs
\* from the one the same call writes with test mode off.
C12_TestModeSuffix ==
    (Called(last) /\ last.outcome = "written" /\ gen.test)
        => LET a == last.args[1]
               f == manifests[last.ret[1]]
               digest == Md5Hex(AssemblyFiles[a.assembly_path])
               alias == a.runs[1] \o (IF Len(a.runs) > 1 THEN "_others" ELSE "")
                           \o "_" \o digest
           IN  /\ StartsWith(Value(f[4]), alias \o "_")
               /\ Len(Value(f[4])) > Len(alias) + 1
               /\ f # ManifestText([gen EXCEPT !.test = FALSE], a)

\* the instrument models the archive holds for the runs of a row
ModelsOf(row) ==
    LET runs == Split(row.Runs) IN
    {EnaRuns[runs[i]].instrument_model : i \in 1..Len(runs)}

\* C14: the PLATFORM a row is written with is the comma-join of the distinct
\* instrument models of its runs, and it is reproducible: when a pass rewrites
\* the manifest of the same runs, the new PLATFORM string is the one already
\* there, with the models in the same order.
C14_PlatformDeterministic ==
    [][(last'.op = "write_manifests" /\ last'.outcome = "written")
        => LET path == last'.ret[1]
               platform == Split(Value(manifests'[path][8]))
           IN  /\ Len(platform) = Cardinality(ModelsOf(last'.row[1]))
               /\ {platform[i] : i \in 1..Len(platform)} = ModelsOf(last'.row[1])
               /\ (path \in DOMAIN manifests
                     /\ Value(manifests[path][3]) = Value(manifests'[path][3]))
                     => Value(manifests'[path][8]) = Value(manifests[path][8])]_vars

\* two successive steps are rows of one pass of write_manifests that both
\* called generate_manifest with accepted FASTA files of identical bytes
SameBytesRows(l1, l2) ==
    /\ l1.op = "write_manifests" /\ l1.args # None
    /\ l2.op = "write_manifests" /\ l2.args # None
    /\ ~Rejected(l1.args[1].assembly_path)
    /\ ~Rejected(l2.args[1].assembly_path)
    /\ AssemblyFiles[l1.args[1].assembly_path] = AssemblyFiles[l2.args[1].assembly_path]

\* C16 as stated: the first two rows of a CSV, with byte-identical FASTA
\* files, return the same manifest path and add no second manifest; with
\* force off the manifest then holds the values of the first of them, with
\* force on those of the second.
C16_FirstOrLastRowKept ==
    [][(SameBytesRows(last, last') /\ rows_read = 1 /\ rows_read' = 2)
        => (/\ last'.ret = last.ret
            /\ DOMAIN manifests' = DOMAIN manifests
            /\ manifests'[last.ret[1]] =
                  IF gen.force THEN ManifestText(gen, last'.args[1])
                  ELSE ManifestText(gen, last.args[1]))]_vars

\* C16 (amended): a row that follows, in the same pass, a row with a
\* byte-identical FASTA file returns the same manifest path and adds no
\* manifest.  With force on the manifest then holds the values of the later
\* row.  With force off the later row changes nothing: the manifest holds the
\* values of the earlier row if that row wrote it, and otherwise what was at
\* the path before, so that neither row's values are written.
C16_SameBytesRows ==
    [][SameBytesRows(last, last')
        => (/\ last'.ret = last.ret
            /\ DOMAIN manifests' = DOMAIN manifests
            /\ gen.force
                  => manifests'[last.ret[1]] = ManifestText(gen, last'.args[1])
            /\ ~gen.force
                  => /\ manifests' = manifests
                     /\ last'.outcome = "exists"
                     /\ last.outcome = "written"
                           => manifests'[last.ret[1]] = ManifestText(gen, last.args[1])
                     /\ last.outcome = "exists" => last.existed)]_vars

C16_Witness ==
    /\ last.op = "write_manifests"
    /\ last.outcome = "exists"
    /\ ~gen.force
    /\ rows_read = 2
    /\ passes = 1
    /\ calls = 0
    /\ last.args[1].assembly_path = "b.fasta.gz"
    /\ Value(manifests[last.ret[1]][9]) = "a.fa.gz"
    /\ Value(manifests[last.ret[1]][6]) # last.args[1].coverage

----------------------------------------------------------------------------
(* Further properties of the registration generator *)

\* a PROJECT_ATTRIBUTE element holding the pair (TAG tag, VALUE value)
IsAttribute(e, tag, value) ==
    /\ e.tag = "PROJECT_ATTRIBUTE"
    /\ Len(e.children) = 2
    /\ e.children[1].tag = "TAG"   /\ e.children[1].text = <<tag>>
    /\ e.children[2].tag = "VALUE" /\ e.children[2].text = <<value>>

\* a PROJECT_LINKS element holding one PROJECT_LINK > XREF_LINK to PubMed
IsPubmedLinks(e, id) ==
    /\ e.tag = "PROJECT_LINKS"
    /\ Len(e.children) = 1
    /\ e.children[1].tag = "PROJECT_LINK"
    /\ Len(e.children[1].children) = 1
    /\ LET xref == e.children[1].children[1] IN
       /\ xref.tag = "XREF_LINK"
       /\ Len(xref.children) = 2
       /\ xref.children[1].tag = "DB" /\ xref.children[1].text = <<"PUBMED">>
       /\ xref.children[2].tag = "ID" /\ xref.children[2].text = <<id>>

\* a publication ID has been given to the generator
PublicationSet(pub) == pub # None

\* C13: the study XML just written holds the attribute (study keyword,
\* TPA:assembly) exactly when tpa is set, holds (new_study_type, "{library}
\* assembly") as its last attribute, and holds PROJECT_LINKS with the PUBMED
\* XREF_LINK of the publication exactly when a publication ID is set.
C13_StudyXmlContent ==
    (last.op \in {"write_study_xml", "write"})
        => LET g == reg[1]
               project == xmls[g.study_xml_path][1].children[1]
               kids == project.children
               attrs == kids[Len(kids)].children
           IN  /\ kids[Len(kids)].tag = "PROJECT_ATTRIBUTES"
               /\ (\E i \in 1..Len(attrs) :
                        IsAttribute(attrs[i], "study keyword", "TPA:assembly"))
                     <=> g.tpa
               /\ IsAttribute(attrs[Len(attrs)], "new_study_type",
                              g.library \o " assembly")
               /\ (\E i \in 1..Len(kids) : kids[i].tag = "PROJECT_LINKS")
                     <=> PublicationSet(g.publication)
               /\ \A i \in 1..Len(kids) :
                     kids[i].tag = "PROJECT_LINKS"
                        => IsPubmedLinks(kids[i], IntStr(g.publication[1]))

\* C15: a construction that succeeds has called build_query exactly once and
\* keeps the record it returned; a construction whose query fails leaves no
\* generator; write_study_xml, write_submission_xml and write call build_query
\* no more, leave the record as it is and build their documents from it, also
\* when the archive has changed since.
C15_FetchOnce ==
    [][/\ (last'.op = "StudyXMLGenerator" /\ last'.outcome = "ok")
           => (/\ ena_calls' = ena_calls + 1
               /\ reg' # None
               /\ reg'[1].study_obj = ena[1])
       /\ (last'.op = "StudyXMLGenerator" /\ ena = None
              /\ last'.args[1].library \in {"metagenome", "metatranscriptome"})
           => (/\ reg' = None
               /\ last'.outcome = "unresolved")
       /\ (last'.op \in XmlWrites)
           => (/\ ena_calls' = ena_calls
               /\ reg' # None
               /\ reg'[1].study_obj = reg[1].study_obj)
       /\ (last'.op \in {"write_study_xml", "write"})
           => xmls'[reg[1].study_xml_path][1].children[1].attrs[1]
                 = <<"alias", reg[1].study_obj.study_accession \o "_assembly">>
       /\ (last'.op \in {"write_submission_xml", "write"}
              /\ last'.outcome # "raised" /\ ~HoldTruthy(reg[1].hold_date))
           => LET record == reg[1].study_obj
                  actions == ActionsOf(xmls'[reg[1].submission_xml_path][1])
                  now == Calendar[today]
              IN  /\ Cardinality(WithChild(actions, "HOLD"))
                        = (IF IsoNumber(record.first_public)
                                 > DayNumber(now.y, now.m, now.d)
                           THEN 1 ELSE 0)
                  /\ \A i \in WithChild(actions, "HOLD") :
                        actions[i].children[1].attrs
                           = << <<"HoldUntilDate", record.first_public>> >>]_vars

C15_Witness ==
    /\ last.op = "write_submission_xml"
    /\ last.outcome # "raised"
    /\ builds = 1
    /\ ena_calls = 1
    /\ updates = 1
    /\ ena # None
    /\ ena[1].first_public # reg[1].study_obj.first_public
    /\ reg[1].hold_date = NoHold
    /\ Cardinality(WithChild(ActionsOf(xmls[reg[1].submission_xml_path][1]),
                             "HOLD")) = 1

\* C17: when StudyXMLGenerator is constructed with a library that is not
\* accepted, the construction fails without build_query having been called,
\* and the directory {study}_upload has been made all the same; no step
\* removes a directory afterwards.
C17_DirectoryBeforeAssert ==
    [][/\ (last'.op = "StudyXMLGenerator"
              /\ last'.args[1].library \notin {"metagenome", "metatranscriptome"})
           => (/\ last'.outcome = "AssertionError"
               /\ reg' = None
               /\ ena_calls' = ena_calls
               /\ (last'.args[1].study \o "_upload") \in dirs')
       /\ \A d \in dirs : d \in dirs']_vars

C17_Witness ==
    /\ last.op = "StudyXMLGenerator"
    /\ last.outcome = "AssertionError"
    /\ builds = 1
    /\ ena # None
    /\ ena_calls = 0
    /\ dirs = {"ERP125469_upload"}
    /\ xmls = NoFiles

=============================================================================
